---------------------------- MODULE Spec2Model ----------------------------
(***************************************************************************)
(* A model of the Fine Dining Coach component (src/FineDiningCoach.tsx):   *)
(* the menu parser, the macro estimator, the scorer, the ranker, and the   *)
(* component's state, local-storage persistence and clipboard writes.      *)
(*                                                                         *)
(* Numbers.  The estimator works on integers.  The scorer works on reals;  *)
(* every term of the score is a multiple of 0.01, so a score is            *)
(* represented exactly by the integer 100 * score.  Midpoints (a+b)/2 are  *)
(* carried doubled (a+b).  JavaScript's binary floating point is not       *)
(* modelled: the arithmetic here is exact.                                 *)
(*                                                                         *)
(* Strings.  A string is a TLA+ string; Len, SubSeq and \o act on it.      *)
(* TLC keeps the strings of a state as ASCII, so the three non-ASCII       *)
(* characters of the source are transliterated: the e with an acute accent *)
(* of "bearnaise" is written e' (and its capital E'), the en dash "-" and  *)
(* the em dash "--".                                                       *)
(*                                                                         *)
(* Objects.  A JavaScript object is a record; an absent (undefined)        *)
(* property is a field that is not in the record's DOMAIN.                 *)
(***************************************************************************)
EXTENDS Integers, Sequences, FiniteSets, TLC

VARIABLES
    state,          \* the component's State (useLocalState value)
    storage,        \* localStorage: [readable, writable, item]
    phase,          \* "unmounted" | "dirty" (render due) | "mounted" | "crashed"
    persistPending, \* the persist effect has to run (val changed)
    autoPending,    \* the auto-calc effect has to run (bodyWeight/goal changed)
    clipboard,      \* the text last written to the clipboard
    uncaught,       \* errors nobody caught: uncaught exceptions, unhandled rejections
    alerts,         \* number of alert() dialogs shown
    edits,          \* number of user operations performed in this session
    unloaded,       \* history: the state and the edit count when the page was closed
    props,          \* the component's props: initialCuisineTemplates
    dishes,         \* the candidate dishes (useMemo `dishes`)
    picks,          \* the ranked picks (useMemo `ranked`)
    dish,           \* the estimator's / scorer's input dish
    macros,         \* a MacroRange: the estimator's output, the scorer's input
    score,          \* the scorer's output (100 * score)
    pc              \* position of the pipeline under study

vars == <<state, storage, phase, persistPending, autoPending, clipboard,
          uncaught, alerts, edits, unloaded, props, dishes, picks, dish, macros, score, pc>>

compVars == <<state, storage, phase, persistPending, autoPending, clipboard,
              uncaught, alerts, edits, unloaded>>

-----------------------------------------------------------------------------
(* Generic helpers *)

Has(obj, k) == k \in DOMAIN obj

Min(a, b) == IF a <= b THEN a ELSE b

Max(a, b) == IF a >= b THEN a ELSE b

Abs(a) == IF a >= 0 THEN a ELSE -a

\* record r with field k set to v (object spread {...r, k: v})
With(r, k, v) == [x \in (DOMAIN r) \cup {k} |-> IF x = k THEN v ELSE r[x]]

\* Math.round(num/den) for den > 0: the nearest integer, halves towards +infinity
MathRound(num, den) == (2 * num + den) \div (2 * den)

\* Array.prototype.includes / some(f => f === x)
Includes(seq, x) == \E i \in 1..Len(seq) : seq[i] = x

\* Array.prototype.slice(0, n)
Slice0(seq, n) == SubSeq(seq, 1, Min(n, Len(seq)))

-----------------------------------------------------------------------------
(* Strings: String.prototype.toLowerCase, trim, split('\n'); RegExp.test *)

upperChars == "ABCDEFGHIJKLMNOPQRSTUVWXYZ"

lowerChars == "abcdefghijklmnopqrstuvwxyz"

charAt(s, i) == SubSeq(s, i, i)

lowerChar(c) ==
    IF \E i \in 1..Len(upperChars) : charAt(upperChars, i) = c
    THEN charAt(lowerChars, CHOOSE i \in 1..Len(upperChars) : charAt(upperChars, i) = c)
    ELSE c

RECURSIVE toLowerCase(_)
toLowerCase(s) ==
    IF Len(s) = 0 THEN "" ELSE lowerChar(charAt(s, 1)) \o toLowerCase(SubSeq(s, 2, Len(s)))

isSpace(c) == c \in {" ", "\t", "\n", "\r", "\f"}

RECURSIVE trimStart(_)
trimStart(s) ==
    IF Len(s) > 0 /\ isSpace(charAt(s, 1)) THEN trimStart(SubSeq(s, 2, Len(s))) ELSE s

RECURSIVE trimEnd(_)
trimEnd(s) ==
    IF Len(s) > 0 /\ isSpace(charAt(s, Len(s))) THEN trimEnd(SubSeq(s, 1, Len(s) - 1)) ELSE s

trim(s) == trimEnd(trimStart(s))

\* text.split('\n'): always at least one piece
RECURSIVE splitLines(_)
splitLines(text) ==
    IF \E i \in 1..Len(text) : charAt(text, i) = "\n"
    THEN LET k == CHOOSE i \in 1..Len(text) :
                     charAt(text, i) = "\n" /\ \A j \in 1..(i - 1) : charAt(text, j) # "\n"
         IN  <<SubSeq(text, 1, k - 1)>> \o splitLines(SubSeq(text, k + 1, Len(text)))
    ELSE <<text>>

\* s contains the literal kw
contains(s, kw) ==
    \E i \in 1..(Len(s) - Len(kw) + 1) : SubSeq(s, i, i + Len(kw) - 1) = kw

\* /(k1|k2|...)/.test(s) for literal alternatives
test(kws, s) == \E kw \in kws : contains(s, kw)

-----------------------------------------------------------------------------
(* utils.HEURISTICS *)

baseProtein ==
    [ steak_8oz_grilled   |-> [kcal |-> 520, protein |-> 56, fat |-> 34, carbs |-> 0, fiber |-> 0],
      salmon_6oz_grilled  |-> [kcal |-> 360, protein |-> 35, fat |-> 22, carbs |-> 0, fiber |-> 0],
      chicken_6oz_grilled |-> [kcal |-> 280, protein |-> 46, fat |-> 6,  carbs |-> 0, fiber |-> 0],
      shrimp_6oz_grilled  |-> [kcal |-> 200, protein |-> 42, fat |-> 3,  carbs |-> 2, fiber |-> 0],
      tofu_6oz_grilled    |-> [kcal |-> 260, protein |-> 26, fat |-> 16, carbs |-> 8, fiber |-> 2],
      sashimi_8pc_mix     |-> [kcal |-> 260, protein |-> 40, fat |-> 6,  carbs |-> 6, fiber |-> 0] ]

\* the generic placeholder base of estimateMacros
placeholderBase == [kcal |-> 250, protein |-> 30, carbs |-> 0, fat |-> 8, fiber |-> 1]

cookingAdj ==
    [ fried     |-> [kcal |-> <<200, 350>>, fat |-> <<12, 22>>, sodium |-> TRUE],
      creamy    |-> [kcal |-> <<150, 300>>, fat |-> <<10, 20>>, sodium |-> TRUE],
      buttered  |-> [kcal |-> <<80, 180>>,  fat |-> <<8, 16>>,  sodium |-> FALSE],
      glazed    |-> [kcal |-> <<50, 120>>,  carbs |-> <<10, 25>>, sodium |-> TRUE],
      breaded   |-> [kcal |-> <<120, 220>>, carbs |-> <<15, 30>>, sodium |-> TRUE],
      alfredo   |-> [kcal |-> <<250, 400>>, fat |-> <<16, 28>>, sodium |-> TRUE],
      aioli     |-> [kcal |-> <<120, 240>>, fat |-> <<10, 20>>, sodium |-> TRUE],
      soy_heavy |-> [kcal |-> <<20, 60>>, sodium |-> TRUE] ]

sideAdj ==
    [ pasta_cup      |-> [kcal |-> <<160, 220>>, carbs |-> <<30, 40>>, fiber |-> <<2, 4>>],
      rice_cup       |-> [kcal |-> <<180, 230>>, carbs |-> <<38, 48>>, fiber |-> <<1, 2>>],
      fries          |-> [kcal |-> <<280, 420>>, carbs |-> <<35, 55>>, fat |-> <<12, 22>>],
      mashed         |-> [kcal |-> <<200, 320>>, carbs |-> <<30, 45>>, fat |-> <<8, 14>>],
      veg_cup        |-> [kcal |-> <<40, 90>>,   carbs |-> <<6, 12>>,  fiber |-> <<2, 5>>],
      salad          |-> [kcal |-> <<40, 100>>,  carbs |-> <<6, 12>>,  fiber |-> <<2, 4>>],
      edamame_cup    |-> [kcal |-> <<120, 190>>, protein |-> <<11, 18>>, carbs |-> <<10, 18>>, fiber |-> <<4, 8>>],
      cucumber_salad |-> [kcal |-> <<40, 70>>, fiber |-> <<1, 2>>, carbs |-> <<7, 12>>] ]

\* (a function rather than a record: a record's field name cannot hold the accent)
sauceAdj ==
    ("be'arnaise"        :> [kcal |-> <<120, 250>>, fat |-> <<12, 24>>, sodium |-> TRUE]) @@
    ("cream_sauce"      :> [kcal |-> <<150, 300>>, fat |-> <<10, 20>>, sodium |-> TRUE]) @@
    ("piccata_light"    :> [kcal |-> <<40, 90>>, carbs |-> <<4, 8>>, sodium |-> TRUE]) @@
    ("soy"              :> [kcal |-> <<20, 60>>, sodium |-> TRUE]) @@
    ("teriyaki"         :> [kcal |-> <<60, 120>>, carbs |-> <<12, 24>>, sodium |-> TRUE]) @@
    ("miso_glaze"       :> [kcal |-> <<50, 100>>, carbs |-> <<10, 20>>, sodium |-> TRUE]) @@
    ("vinaigrette_tbsp" :> [kcal |-> <<40, 80>>, fat |-> <<4, 8>>])

\* the scoring weights, in tenths (proteinBias 1.0, kcalPenalty 0.6, ...)
fiberBonus == 3

proteinBias10 == 10

kcalPenalty10 == 6

sodiumPenalty10 == 5

hiddenFatPenalty10 == 4

trainingCarbBias10 == 2

-----------------------------------------------------------------------------
(* Dish: its optional fields (d.cooking||[] and the like) *)

cookingOf(d) == IF Has(d, "cooking") THEN d.cooking ELSE <<>>

saucesOf(d) == IF Has(d, "sauces") THEN d.sauces ELSE <<>>

sidesOf(d) == IF Has(d, "sides") THEN d.sides ELSE <<>>

\* d.isHighSodium as a condition (undefined is falsy)
isHighSodiumOf(d) == Has(d, "isHighSodium") /\ d.isHighSodium

\* d.proteinType === p
ProteinIs(d, p) == Has(d, "proteinType") /\ d.proteinType = p

-----------------------------------------------------------------------------
(* utils.estimateMacros *)

\* the base tuple chosen by a protein type compared without regard to case
baseOfIgnoreCase(d) ==
    LET p == IF Has(d, "proteinType") THEN toLowerCase(d.proteinType) ELSE ""
    IN  IF p = "beef" THEN baseProtein.steak_8oz_grilled
        ELSE IF p = "fish" THEN baseProtein.salmon_6oz_grilled
        ELSE IF p = "chicken" THEN baseProtein.chicken_6oz_grilled
        ELSE IF p = "shrimp" THEN baseProtein.shrimp_6oz_grilled
        ELSE IF p = "tofu" THEN baseProtein.tofu_6oz_grilled
        ELSE IF p = "sashimi" THEN baseProtein.sashimi_8pc_mix
        ELSE placeholderBase

\* the base tuple: the placeholder, overwritten by the matching protein's tuple
baseOf(d) ==
    IF ProteinIs(d, "beef") THEN baseProtein.steak_8oz_grilled
    ELSE IF ProteinIs(d, "fish") THEN baseProtein.salmon_6oz_grilled
    ELSE IF ProteinIs(d, "chicken") THEN baseProtein.chicken_6oz_grilled
    ELSE IF ProteinIs(d, "shrimp") THEN baseProtein.shrimp_6oz_grilled
    ELSE IF ProteinIs(d, "tofu") THEN baseProtein.tofu_6oz_grilled
    ELSE IF ProteinIs(d, "sashimi") THEN baseProtein.sashimi_8pc_mix
    ELSE placeholderBase

\* let minK=base.kcal, maxK=base.kcal, minP=base.protein, maxP=base.protein,
\*     minC=0, maxC=0, minF=base.fat, maxF=base.fat, minFi=0, maxFi=2
initAcc(base) ==
    [minK |-> base.kcal, maxK |-> base.kcal, minP |-> base.protein, maxP |-> base.protein,
     minC |-> 0, maxC |-> 0, minF |-> base.fat, maxF |-> base.fat, minFi |-> 0, maxFi |-> 2]

\* the two bounds of the delta exchanged: lo += adj.f[1]; hi += adj.f[0]
addFieldSwapped(acc, adj, f, lo, hi) ==
    IF Has(adj, f) THEN [acc EXCEPT ![lo] = @ + adj[f][2], ![hi] = @ + adj[f][1]] ELSE acc

\* if (adj.f) { lo += adj.f[0]; hi += adj.f[1]; }
addField(acc, adj, f, lo, hi) ==
    IF Has(adj, f) THEN [acc EXCEPT ![lo] = @ + adj[f][1], ![hi] = @ + adj[f][2]] ELSE acc

\* the body of the cooking and of the sauce loop: kcal, fat, carbs
addKFC(acc, table, tag) ==
    IF tag \notin DOMAIN table THEN acc
    ELSE addField(addField(addField(acc, table[tag], "kcal", "minK", "maxK"),
                           table[tag], "fat", "minF", "maxF"),
                  table[tag], "carbs", "minC", "maxC")

\* the body of the sides loop: kcal, fat, carbs, fiber, protein
addSide(acc, tag) ==
    IF tag \notin DOMAIN sideAdj THEN acc
    ELSE addField(addField(addKFC(acc, sideAdj, tag),
                           sideAdj[tag], "fiber", "minFi", "maxFi"),
                  sideAdj[tag], "protein", "minP", "maxP")

RECURSIVE forEachKFC(_, _, _)
forEachKFC(acc, table, tags) ==
    IF tags = <<>> THEN acc ELSE forEachKFC(addKFC(acc, table, Head(tags)), table, Tail(tags))

RECURSIVE forEachSide(_, _)
forEachSide(acc, tags) ==
    IF tags = <<>> THEN acc ELSE forEachSide(addSide(acc, Head(tags)), Tail(tags))

estimateMacros(d) ==
    LET a == forEachSide(forEachKFC(forEachKFC(initAcc(baseOf(d)), cookingAdj, cookingOf(d)),
                                    sauceAdj, saucesOf(d)),
                         sidesOf(d))
    IN [kcal    |-> <<MathRound(a.minK, 1), MathRound(a.maxK, 1)>>,
        protein |-> <<MathRound(a.minP, 1), MathRound(a.maxP, 1)>>,
        carbs   |-> <<MathRound(a.minC, 1), MathRound(a.maxC, 1)>>,
        fat     |-> <<MathRound(a.minF, 1), MathRound(a.maxF, 1)>>,
        fiber   |-> <<MathRound(a.minFi, 1), MathRound(a.maxFi, 1)>>]

\* utils.proteinPer100Kcal, in tenths: Math.round((midP / midK) * 1000) / 10
proteinPer100Kcal(range) ==
    MathRound((range.protein[1] + range.protein[2]) * 1000, range.kcal[1] + range.kcal[2])

-----------------------------------------------------------------------------
(* utils.scoreDish: 100 * score *)

\* a flag of the context used as a condition (undefined is falsy)
Flag(obj, k) == Has(obj, k) /\ obj[k] = TRUE

\* x || dflt for a number x
OrElse(x, dflt) == IF x = 0 THEN dflt ELSE x

hiddenFatFlags == {"fried", "creamy", "buttered", "aioli", "alfredo", "glazed", "breaded"}

\* the sodium condition without the dish's flag: only the soy_heavy cooking tag counts
sodiumPenaltyTagOnly(d, ctx) ==
    Flag(ctx, "lowSodium") /\ Includes(cookingOf(d), "soy_heavy")

\* a tag that a table marks sodium: true
sodiumMarked(table, tag) ==
    tag \in DOMAIN table /\ Has(table[tag], "sodium") /\ table[tag].sodium

\* the sodium condition read from the adjustment tables as well: the dish's flag, or a
\* cooking or sauce tag marked sodium: true
sodiumPenaltyByTables(d, ctx) ==
    Flag(ctx, "lowSodium")
    /\ \/ isHighSodiumOf(d)
       \/ \E i \in 1..Len(cookingOf(d)) : sodiumMarked(cookingAdj, cookingOf(d)[i])
       \/ \E i \in 1..Len(saucesOf(d)) : sodiumMarked(sauceAdj, saucesOf(d)[i])

\* the sodium condition: ctx.lowSodium && (d.isHighSodium || cooking has soy_heavy)
sodiumPenaltyApplies(d, ctx) ==
    Flag(ctx, "lowSodium") /\ (isHighSodiumOf(d) \/ Includes(cookingOf(d), "soy_heavy"))

\* the hidden-fat condition without 'creamy' in the list of flags
hiddenFatAppliesNoCreamy(d) ==
    \E i \in 1..Len(cookingOf(d)) : cookingOf(d)[i] \in hiddenFatFlags \ {"creamy"}

hiddenFatApplies(d) == \E i \in 1..Len(cookingOf(d)) : cookingOf(d)[i] \in hiddenFatFlags

\* the price as scoreDish receives it: [price |-> n], or no price (undefined)
budgetApplies(ctx, price) == Flag(ctx, "budget") /\ Has(price, "price") /\ price.price > 35

scoreDish(d, m, ctx, price) ==
    LET midP2  == m.protein[1] + m.protein[2]
        midK2  == m.kcal[1] + m.kcal[2]
        midC2  == m.carbs[1] + m.carbs[2]
        midFi2 == m.fiber[1] + m.fiber[2]
        proteinGap2 == Max(0, 2 * ctx.remainingProtein - midP2)
        proteinHit2 == Min(midP2, 2 * OrElse(ctx.remainingProtein, 50))
        kcalDelta2  == Abs(2 * OrElse(ctx.remainingKcal, 650) - midK2)
    IN  (proteinHit2 * proteinBias10 * 5) - (proteinGap2 * 10)
        + (10000 - (kcalPenalty10 * kcalDelta2) \div 2)
        - (IF Flag(ctx, "lowCarb") /\ ~ctx.trainingDay THEN Max(0, midC2 - 60) * 25 ELSE 0)
        + (IF ctx.trainingDay THEN trainingCarbBias10 * Min(120, midC2) * 5 ELSE 0)
        + (IF Flag(ctx, "highFiber") THEN (midFi2 * 150) \div fiberBonus ELSE 0)
        - (IF sodiumPenaltyApplies(d, ctx) THEN 150 * sodiumPenalty10 ELSE 0)
        - (IF hiddenFatApplies(d) THEN 120 * hiddenFatPenalty10 ELSE 0)
        - (IF budgetApplies(ctx, price) THEN (price.price - 35) * 50 ELSE 0)

\* `priceOf` with the displayed estimate's upper end for a dish without a price
priceOfEstimated(d) == IF Has(d, "price") THEN [price |-> d.price] ELSE [price |-> 38]

\* d.price as an argument: the dish's price field, or nothing
priceOf(d) == IF Has(d, "price") THEN [price |-> d.price] ELSE [noprice |-> TRUE]

-----------------------------------------------------------------------------
(* utils.buildScript, utils.formatRange *)

RECURSIVE join(_, _)
join(parts, sep) ==
    IF parts = <<>> THEN ""
    ELSE IF Len(parts) = 1 THEN parts[1]
    ELSE parts[1] \o sep \o join(Tail(parts), sep)

\* the script with the two preference fragments pushed before the two dish fragments
buildScriptPrefsFirst(d, prefs) ==
    join(<<"grilled if possible", "no butter">>
         \o (IF Flag(prefs, "lowSodium") THEN <<"easy on salt, skip soy/miso">> ELSE <<>>)
         \o (IF Flag(prefs, "lowCarb") THEN <<"swap starch for extra greens">> ELSE <<>>)
         \o (IF Includes(cookingOf(d), "creamy") \/ Len(saucesOf(d)) > 0
             THEN <<"sauce on the side, light">> ELSE <<>>)
         \o (IF Includes(sidesOf(d), "rice_cup") \/ Includes(sidesOf(d), "pasta_cup")
             THEN <<"half starch, double vegetables">> ELSE <<>>),
         "; ")

buildScript(d, prefs) ==
    join(<<"grilled if possible", "no butter">>
         \o (IF Includes(cookingOf(d), "creamy") \/ Len(saucesOf(d)) > 0
             THEN <<"sauce on the side, light">> ELSE <<>>)
         \o (IF Includes(sidesOf(d), "rice_cup") \/ Includes(sidesOf(d), "pasta_cup")
             THEN <<"half starch, double vegetables">> ELSE <<>>)
         \o (IF Flag(prefs, "lowSodium") THEN <<"easy on salt, skip soy/miso">> ELSE <<>>)
         \o (IF Flag(prefs, "lowCarb") THEN <<"swap starch for extra greens">> ELSE <<>>),
         "; ")

formatRange(r, unit) ==
    IF r[1] = r[2] THEN ToString(r[1]) \o unit
    ELSE ToString(r[1]) \o unit \o "-" \o ToString(r[2]) \o unit

-----------------------------------------------------------------------------
(* utils.parseMenu *)

\* the protein tests, in the order of the if / else-if chain
proteinRules ==
    << <<"beef",    {"filet", "sirloin", "tenderloin", "ribeye", "steak"}>>,
       <<"fish",    {"salmon", "tuna", "cod", "branzino", "halibut", "fish"}>>,
       <<"chicken", {"chicken", "pollo"}>>,
       <<"shrimp",  {"shrimp", "prawn", "scampi"}>>,
       <<"tofu",    {"tofu", "tempeh"}>>,
       <<"sashimi", {"sashimi", "nigiri"}>> >>

cookingRules ==
    << <<"grilled",   {"grill"}>>,
       <<"fried",     {"fried", "breaded", "katsu", "tempura"}>>,
       <<"creamy",    {"cream", "alfredo", "be'arnaise", "beurre", "aioli"}>>,
       <<"buttered",  {"butter", "brown butter"}>>,
       <<"glazed",    {"glaze", "glazed", "teriyaki", "miso"}>>,
       <<"soy_heavy", {"soy"}>> >>

sauceRules ==
    << <<"be'arnaise",     {"be'arnaise"}>>,
       <<"cream_sauce",   {"alfredo", "cream"}>>,
       <<"piccata_light", {"piccata"}>>,
       <<"soy",           {"soy"}>>,
       <<"teriyaki",      {"teriyaki"}>>,
       <<"miso_glaze",    {"miso"}>> >>

\* the four side tests made on the line itself
sideRules ==
    << <<"fries",     {"fries", "frites"}>>,
       <<"mashed",    {"mash"}>>,
       <<"pasta_cup", {"pasta", "spaghetti", "rigatoni", "penne", "linguine"}>>,
       <<"rice_cup",  {"rice", "risotto"}>> >>

vegKeywords ==
    {"asparagus", "greens", "broccoli", "veg", "salad", "spinach", "edamame", "cucumber"}

\* the sodium keywords extended by the sauces that sauceAdj marks sodium: true
sodiumKeywordsWithSauces ==
    {"soy", "miso", "teriyaki", "cured", "pickled", "be'arnaise", "cream", "piccata"}

sodiumKeywords == {"soy", "miso", "teriyaki", "cured", "pickled"}

allergenRules ==
    << <<"nuts",      {"peanut", "nut"}>>,
       <<"dairy",     {"dairy", "cream", "cheese", "butter", "be'arnaise"}>>,
       <<"gluten",    {"gluten", "breaded", "panko", "pasta"}>>,
       <<"shellfish", {"shrimp", "prawn", "shellfish"}>> >>

\* if (/.../i.test(line)) list.push(tag), one rule after the other; the /i test of
\* lower-case literals is made as the plain test of the lower-cased line
RECURSIVE pushMatches(_, _)
pushMatches(rules, lower) ==
    IF rules = <<>> THEN <<>>
    ELSE (IF test(rules[1][2], lower) THEN <<rules[1][1]>> ELSE <<>>)
         \o pushMatches(Tail(rules), lower)

\* independent ifs in place of the else-if chain: the last rule that matches wins
RECURSIVE lastMatch(_, _)
lastMatch(rules, lower) ==
    IF rules = <<>> THEN <<>>
    ELSE IF lastMatch(Tail(rules), lower) # <<>> THEN lastMatch(Tail(rules), lower)
    ELSE IF test(rules[1][2], lower) THEN <<rules[1][1]>>
    ELSE <<>>

\* the if / else-if chain: the first rule that matches, <<>> when none does
RECURSIVE firstMatch(_, _)
firstMatch(rules, lower) ==
    IF rules = <<>> THEN <<>>
    ELSE IF test(rules[1][2], lower) THEN <<rules[1][1]>>
    ELSE firstMatch(Tail(rules), lower)

\* the vegetable block, which tests the lower-cased line
vegSides(lower) ==
    IF test(vegKeywords, lower)
    THEN (IF test({"edamame"}, lower) THEN <<"edamame_cup">> ELSE <<>>)
         \o (IF test({"cucumber"}, lower) THEN <<"cucumber_salad">> ELSE <<>>)
         \o (IF test({"spinach", "creamed spinach"}, lower) THEN <<"pasta_cup">> ELSE <<>>)
         \o <<"veg_cup">>
         \o (IF test({"salad"}, lower) THEN <<"salad">> ELSE <<>>)
    ELSE <<>>

parseLine(line) ==
    LET lower == toLowerCase(line)
        p == firstMatch(proteinRules, lower)
        parsed == [name         |-> line,
                   cooking      |-> pushMatches(cookingRules, lower),
                   sauces       |-> pushMatches(sauceRules, lower),
                   sides        |-> pushMatches(sideRules, lower) \o vegSides(lower),
                   isHighSodium |-> test(sodiumKeywords, lower),
                   allergens    |-> pushMatches(allergenRules, lower)]
    IN  IF p = <<>> THEN parsed ELSE With(parsed, "proteinType", p[1])

RECURSIVE mapTrimFilter(_)
mapTrimFilter(lines) ==
    IF lines = <<>> THEN <<>>
    ELSE (IF trim(lines[1]) = "" THEN <<>> ELSE <<trim(lines[1])>>)
         \o mapTrimFilter(Tail(lines))

parseMenu(text) ==
    LET lines == mapTrimFilter(splitLines(text))
    IN  [i \in 1..Len(lines) |-> parseLine(lines[i])]

-----------------------------------------------------------------------------
(* utils.TEMPLATES: the default picks of the three built-in cuisines *)

TEMPLATES ==
    ("Steakhouse" :> [defaultPicks |-> <<
        [name |-> "Filet mignon (8 oz), grilled", proteinType |-> "beef",
         cooking |-> <<"grilled">>, sides |-> <<"veg_cup", "salad">>, sauces |-> <<>>,
         notes |-> "Ask for no butter; sauce on side"],
        [name |-> "Grilled salmon (6-8 oz)", proteinType |-> "fish",
         cooking |-> <<"grilled">>, sides |-> <<"veg_cup">>, sauces |-> <<>>,
         notes |-> "Lemon, herbs"],
        [name |-> "Grilled chicken breast (6-8 oz)", proteinType |-> "chicken",
         cooking |-> <<"grilled">>, sides |-> <<"veg_cup", "salad">>, sauces |-> <<>>] >>]) @@
    ("Italian" :> [defaultPicks |-> <<
        [name |-> "Chicken piccata (light sauce), with grilled veg", proteinType |-> "chicken",
         cooking |-> <<"grilled">>, sauces |-> <<"piccata_light">>, sides |-> <<"veg_cup">>],
        [name |-> "Grilled branzino/cod with veg", proteinType |-> "fish",
         cooking |-> <<"grilled">>, sides |-> <<"veg_cup">>],
        [name |-> "Steak tagliata, arugula, balsamic (light)", proteinType |-> "beef",
         cooking |-> <<"grilled">>, sides |-> <<"salad">>] >>]) @@
    ("Sushi/Japanese" :> [defaultPicks |-> <<
        [name |-> "Sashimi assortment + edamame + cucumber salad", proteinType |-> "sashimi",
         sides |-> <<"edamame_cup", "cucumber_salad">>],
        [name |-> "Grilled salmon teriyaki (sauce on side)", proteinType |-> "fish",
         cooking |-> <<"grilled", "glazed">>, sauces |-> <<"teriyaki">>, sides |-> <<"veg_cup">>],
        [name |-> "Tuna tataki + seaweed salad", proteinType |-> "fish",
         cooking |-> <<"grilled">>, sides |-> <<"veg_cup">>] >>])

\* the cuisines the select offers: the templates' keys, then six without a template
CuisineKeys ==
    <<"Steakhouse", "Italian", "Sushi/Japanese",
      "Mexican", "Chinese", "Indian", "American", "Mediterranean", "French">>

\* {...utils.TEMPLATES, ...(initialCuisineTemplates||{})}
cuisineTemplates(initialCuisineTemplates) == initialCuisineTemplates @@ TEMPLATES

-----------------------------------------------------------------------------
(* The component's state *)

defaultState ==
    [mode |-> "Standard", goal |-> "Cut (steady)", mealType |-> "dinner",
     trainingDay |-> FALSE, cuisine |-> "Steakhouse", dietary |-> <<>>,
     prefs |-> [lowSodium |-> FALSE, lowCarb |-> FALSE, highFiber |-> TRUE, spice |-> "medium"],
     alcohol |-> [plan |-> 0, type |-> "none"], budgetMode |-> FALSE,
     socialContext |-> "client dinner", nextMorningRebalance |-> TRUE, walkMins |-> 10,
     favorites |-> <<>>, recents |-> <<>>]

\* a number-valued optional property used as a condition (undefined and 0 are falsy)
Truthy(obj, k) == Has(obj, k) /\ obj[k] # 0

\* state.remainingKcal ?? Math.round(state.dailyKcal ? state.dailyKcal*0.4 : 650)
remainingKcal(st) ==
    IF Has(st, "remainingKcal") THEN st.remainingKcal
    ELSE IF Truthy(st, "dailyKcal") THEN MathRound(st.dailyKcal * 4, 10) ELSE MathRound(650, 1)

\* state.remainingProtein ?? Math.round(state.proteinTarget ? state.proteinTarget*0.4 : 45)
remainingProtein(st) ==
    IF Has(st, "remainingProtein") THEN st.remainingProtein
    ELSE IF Truthy(st, "proteinTarget") THEN MathRound(st.proteinTarget * 4, 10) ELSE MathRound(45, 1)

\* `dishes` with the menu text tested by its length alone, not trimmed first
dishesOfUntrimmed(st, initialCuisineTemplates) ==
    IF Has(st, "menuText") /\ Len(st.menuText) > 0
    THEN parseMenu(st.menuText)
    ELSE IF st.cuisine \in DOMAIN cuisineTemplates(initialCuisineTemplates)
         THEN cuisineTemplates(initialCuisineTemplates)[st.cuisine].defaultPicks
         ELSE <<>>

\* `dishes` with the Steakhouse picks standing in for a cuisine that has no template
dishesOfWithFallback(st, initialCuisineTemplates) ==
    IF Has(st, "menuText") /\ st.menuText # "" /\ Len(trim(st.menuText)) > 0
    THEN parseMenu(st.menuText)
    ELSE IF st.cuisine \in DOMAIN cuisineTemplates(initialCuisineTemplates)
         THEN cuisineTemplates(initialCuisineTemplates)[st.cuisine].defaultPicks
         ELSE TEMPLATES["Steakhouse"].defaultPicks

\* the useMemo `dishes`: the parsed menu, or the cuisine's default picks, or []
dishesOf(st, initialCuisineTemplates) ==
    IF Has(st, "menuText") /\ st.menuText # "" /\ Len(trim(st.menuText)) > 0
    THEN parseMenu(st.menuText)
    ELSE IF st.cuisine \in DOMAIN cuisineTemplates(initialCuisineTemplates)
         THEN cuisineTemplates(initialCuisineTemplates)[st.cuisine].defaultPicks
         ELSE <<>>

\* the context object that `ranked` hands to scoreDish
ctxOf(st) ==
    [remainingKcal |-> remainingKcal(st), remainingProtein |-> remainingProtein(st),
     trainingDay |-> Flag(st, "trainingDay"),
     lowSodium |-> Flag(st.prefs, "lowSodium"), lowCarb |-> Flag(st.prefs, "lowCarb"),
     highFiber |-> Flag(st.prefs, "highFiber"), budget |-> Flag(st, "budgetMode")]

-----------------------------------------------------------------------------
(* The useMemo `ranked` *)

badgesOf(m, st) ==
    (IF proteinPer100Kcal(m) >= 70 THEN <<"High-Protein">> ELSE <<>>)
    \o (IF Flag(st.prefs, "lowCarb") THEN <<"Low-Carb">> ELSE <<>>)
    \o (IF Flag(st.prefs, "lowSodium") THEN <<"Low-Sodium">> ELSE <<>>)
    \o (IF Flag(st, "budgetMode") THEN <<"Budget">> ELSE <<>>)
    \o (IF Flag(st, "trainingDay") THEN <<"Training-Day">> ELSE <<>>)

\* `toPick` with the Low-Sodium badge withheld from a dish flagged high-sodium
toPickSodiumAware(d, st) ==
    LET m == estimateMacros(d)
    IN  [rank |-> 0, dish |-> d, script |-> buildScript(d, st.prefs),
         macros |-> m, proteinPer100kcal |-> proteinPer100Kcal(m),
         sodiumFlag |-> isHighSodiumOf(d),
         badges |-> SelectSeq(badgesOf(m, st),
                              LAMBDA b : ~(b = "Low-Sodium" /\ isHighSodiumOf(d) = TRUE))]

\* dishes.map(d => ({rank: 0, dish: d, script, macros, proteinPer100kcal, sodiumFlag, badges}))
toPick(d, st) ==
    LET m == estimateMacros(d)
    IN  [rank |-> 0, dish |-> d, script |-> buildScript(d, st.prefs),
         macros |-> m, proteinPer100kcal |-> proteinPer100Kcal(m),
         sodiumFlag |-> isHighSodiumOf(d), badges |-> badgesOf(m, st)]

\* the key of the sort's comparator: scoreDish(x.dish, x.macros, ctx, x.dish.price)
pickScore(p, ctx) == scoreDish(p.dish, p.macros, ctx, priceOf(p.dish))

\* x put into a list sorted by descending score, after the entries that compare >= x
RECURSIVE insertByScore(_, _, _)
insertByScore(sorted, x, ctx) ==
    IF sorted = <<>> THEN <<x>>
    ELSE IF pickScore(Head(sorted), ctx) >= pickScore(x, ctx)
         THEN <<Head(sorted)>> \o insertByScore(Tail(sorted), x, ctx)
         ELSE <<x>> \o sorted

\* x put into a list sorted by ascending score
RECURSIVE insertByScoreAsc(_, _, _)
insertByScoreAsc(sorted, x, ctx) ==
    IF sorted = <<>> THEN <<x>>
    ELSE IF pickScore(Head(sorted), ctx) <= pickScore(x, ctx)
         THEN <<Head(sorted)>> \o insertByScoreAsc(Tail(sorted), x, ctx)
         ELSE <<x>> \o sorted

\* the sort with the comparator's operands exchanged: score(a) - score(b)
RECURSIVE sortByScoreAsc(_, _)
sortByScoreAsc(arr, ctx) ==
    IF arr = <<>> THEN <<>>
    ELSE insertByScoreAsc(sortByScoreAsc(SubSeq(arr, 1, Len(arr) - 1), ctx), arr[Len(arr)], ctx)

\* arr.sort((a, b) => score(b) - score(a)): a stable sort, descending by score
RECURSIVE sortByScoreDesc(_, _)
sortByScoreDesc(arr, ctx) ==
    IF arr = <<>> THEN <<>>
    ELSE insertByScore(sortByScoreDesc(SubSeq(arr, 1, Len(arr) - 1), ctx), arr[Len(arr)], ctx)

\* the number of picks shown: slice(0, 3)
topN == 3

\* the allergen tag a dietary filter names, "" for the filters that name none
allergenOfFilter(k) ==
    CASE k = "avoidShellfish" -> "shellfish"
      [] k = "dairyFree"      -> "dairy"
      [] k = "glutenFree"     -> "gluten"
      [] k = "nutAllergy"     -> "nuts"
      [] OTHER                -> ""

\* the dish carries the allergen tag of a dietary filter that is set
filteredOut(d, dietary) ==
    \E k \in DOMAIN dietary :
        dietary[k] /\ Has(d, "allergens") /\ Includes(d.allergens, allergenOfFilter(k))

\* `ranked` with the dishes that a set dietary filter excludes left out
rankedDietaryFiltered(ds, st) ==
    LET kept == SelectSeq(ds, LAMBDA d : ~filteredOut(d, st.dietary))
        arr == [i \in 1..Len(kept) |-> toPick(kept[i], st)]
        sorted == sortByScoreDesc(arr, ctxOf(st))
    IN  Slice0([i \in 1..Len(sorted) |-> [sorted[i] EXCEPT !.rank = i]], topN)

ranked(ds, st) ==
    LET arr == [i \in 1..Len(ds) |-> toPick(ds[i], st)]
        sorted == sortByScoreDesc(arr, ctxOf(st))
    IN  Slice0([i \in 1..Len(sorted) |-> [sorted[i] EXCEPT !.rank = i]], topN)

-----------------------------------------------------------------------------
(* Bounds and input sets of the pipeline specifications *)

\* the largest number of cooking, sauce and side tags, together, of an estimated dish
MaxTags == 2

\* the largest number of candidate dishes handed to the ranker
MaxDishes == 4

\* the largest number of user operations in one session of the component
MaxEdits == 2

\* protein types: the six known ones, two unknown ones; a dish may also have none
ProteinInputs == {"beef", "fish", "chicken", "shrimp", "tofu", "sashimi", "pork", "Beef"}

\* tags: every key of the adjustment table, a tag the table lacks, a tag of another table
CookingInputs == (DOMAIN cookingAdj) \cup {"grilled", "teriyaki"}

SauceInputs == (DOMAIN sauceAdj) \cup {"ponzu", "creamy"}

SideInputs == (DOMAIN sideAdj) \cup {"polenta", "fried"}

TagTriples ==
    UNION { [1..t[1] -> CookingInputs] \X [1..t[2] -> SauceInputs] \X [1..t[3] -> SideInputs] :
            t \in {u \in (0..MaxTags) \X (0..MaxTags) \X (0..MaxTags) :
                       u[1] + u[2] + u[3] <= MaxTags} }

EstimateDishes ==
    { [name |-> "dish", cooking |-> t[1], sauces |-> t[2], sides |-> t[3]] : t \in TagTriples }
    \cup { [name |-> "dish", proteinType |-> p, cooking |-> t[1], sauces |-> t[2], sides |-> t[3]] :
           p \in ProteinInputs, t \in TagTriples }

\* a state that differs from the default one in the inputs of the ranking
ctxState(rk, rp, td, ls, lc, hf, bm) ==
    [defaultState EXCEPT !.trainingDay = td, !.budgetMode = bm,
                         !.prefs = [lowSodium |-> ls, lowCarb |-> lc, highFiber |-> hf,
                                    spice |-> "medium"]]
    @@ (IF rk < 0 THEN <<>> ELSE [remainingKcal |-> rk])
    @@ (IF rp < 0 THEN <<>> ELSE [remainingProtein |-> rp])

\* remaining kcal / protein inputs; -1 stands for "not entered" (the field is absent)
RemKcalInputs == {-1, 0, 1000}

RemProteinInputs == {-1, 0, 80}

CtxStatesOver(remKcals, remProteins) ==
    { ctxState(rk, rp, td, ls, lc, hf, bm) :
        rk \in remKcals, rp \in remProteins,
        td \in BOOLEAN, ls \in BOOLEAN, lc \in BOOLEAN, hf \in BOOLEAN, bm \in BOOLEAN }

CtxStates == CtxStatesOver(RemKcalInputs, RemProteinInputs)

\* the literal menu line of the parser's example
FiletLine == "Filet mignon 8 oz with be'arnaise"

\* menu texts: empty, whitespace only, one line, several lines with blank ones between
MenuInputs ==
    { "", "   ", " \n\t \n", FiletLine,
      "Creamed spinach\n\n  Grilled Salmon TERIYAKI, rice \nShrimp scampi pasta\nTofu & cucumber salad\nTuna sashimi" }

\* the cuisines of the pick states: the three with a template and one without
CuisineInputs == {"Steakhouse", "Italian", "Sushi/Japanese", "Mexican"}

\* states of the component as the inputs of `dishes` and `ranked`: a cuisine, a menu
\* text or none, and a context
PickStates ==
    { [st EXCEPT !.cuisine = c] @@ mt :
        st \in CtxStatesOver({-1, 0, 650, 1000}, {-1, 0, 45}),
        c \in CuisineInputs,
        mt \in {<<>>} \cup { [menuText |-> t] : t \in MenuInputs } }

\* the scorer's dishes: sodium flag absent / false / true, cooking lists, price absent / high
ScoreDishes ==
    { [name |-> "dish", cooking |-> c] @@ hs @@ pr :
        c \in {<<>>, <<"soy_heavy">>, <<"grilled", "glazed">>},
        hs \in {<<>>, [isHighSodium |-> FALSE], [isHighSodium |-> TRUE]},
        pr \in {<<>>, [price |-> 60]} }
    \cup { TEMPLATES["Sushi/Japanese"].defaultPicks[2] }

\* the scorer's macro ranges: any ranges, not only estimated ones
ScoreMacros ==
    { [kcal |-> k, protein |-> pr, carbs |-> c, fat |-> <<8, 8>>, fiber |-> f] :
        k \in {<<0, 0>>, <<600, 711>>}, pr \in {<<0, 0>>, <<56, 71>>},
        c \in {<<0, 0>>, <<40, 91>>}, f \in {<<0, 2>>, <<4, 11>>} }

\* the ranker's candidates: a template dish, a parsed high-sodium dish, and a priced
\* dish that scores like the template dish unless budget mode is on
RankPool ==
    { TEMPLATES["Steakhouse"].defaultPicks[1],
      [name |-> "Miso cod", proteinType |-> "fish", cooking |-> <<"glazed">>,
       sauces |-> <<"miso_glaze">>, sides |-> <<>>, isHighSodium |-> TRUE, allergens |-> <<>>],
      [name |-> "Wagyu ribeye", proteinType |-> "beef", cooking |-> <<"grilled">>,
       sides |-> <<"veg_cup", "salad">>, sauces |-> <<>>, price |-> 60] }

\* the ranker's contexts: remaining kcal and protein both left alone or both entered
\* (and not 0), with every combination of the flags
RankStates ==
    { st \in CtxStates : /\ (Has(st, "remainingKcal") <=> Has(st, "remainingProtein"))
                          /\ (Has(st, "remainingKcal") => st.remainingKcal # 0)
                          /\ (Has(st, "remainingProtein") => st.remainingProtein # 0) }

RankLists == UNION { [1..n -> RankPool] : n \in 0..MaxDishes }

-----------------------------------------------------------------------------
(* The pipeline specifications: a pure function applied to drawn inputs *)

noDish == [name |-> ""]

noMacros == [kcal |-> <<0, 0>>, protein |-> <<0, 0>>, carbs |-> <<0, 0>>,
             fat |-> <<0, 0>>, fiber |-> <<0, 0>>]

noStorage == [readable |-> TRUE, writable |-> TRUE, item |-> [kind |-> "none"]]

\* the page has not been closed yet
notUnloaded == [closed |-> FALSE]

\* the component's variables while a pipeline specification runs
ComponentIdle ==
    /\ storage = noStorage
    /\ phase = "unmounted"
    /\ persistPending = FALSE
    /\ autoPending = FALSE
    /\ clipboard = ""
    /\ uncaught = {}
    /\ alerts = 0
    /\ edits = 0
    /\ unloaded = notUnloaded

\* estimateMacros applied to the dish
Estimate ==
    /\ pc = "start"
    /\ macros' = estimateMacros(dish)
    /\ pc' = "estimated"
    /\ UNCHANGED <<compVars, props, dishes, picks, dish, score>>

\* scoreDish applied to the dish, the macro range and the state's context
Score ==
    /\ pc \in {"start", "estimated"}
    /\ score' = scoreDish(dish, macros, ctxOf(state), priceOf(dish))
    /\ pc' = "scored"
    /\ UNCHANGED <<compVars, props, dishes, picks, dish, macros>>

NextEstimate == Estimate \/ Score

InitEstimate ==
    /\ ComponentIdle
    /\ state = defaultState
    /\ props = <<>>
    /\ dishes = <<>>
    /\ picks = <<>>
    /\ dish \in EstimateDishes
    /\ macros = noMacros
    /\ score = 0
    /\ pc = "start"

SpecEstimate == InitEstimate /\ [][NextEstimate]_vars

InitScore ==
    /\ ComponentIdle
    /\ state \in CtxStates
    /\ props = <<>>
    /\ dishes = <<>>
    /\ picks = <<>>
    /\ dish \in ScoreDishes
    /\ macros \in ScoreMacros
    /\ score = 0
    /\ pc = "start"

SpecScore == InitScore /\ [][NextEstimate]_vars

\* the useMemo `dishes` evaluated
DishesMemo ==
    /\ pc = "start"
    /\ dishes' = dishesOf(state, props)
    /\ pc' = "dishes"
    /\ UNCHANGED <<compVars, props, picks, dish, macros, score>>

\* the useMemo `ranked` evaluated
RankedMemo ==
    /\ pc = "dishes"
    /\ picks' = ranked(dishes, state)
    /\ pc' = "ranked"
    /\ UNCHANGED <<compVars, props, dishes, dish, macros, score>>

NextRank == DishesMemo \/ RankedMemo

\* the candidates come from the props: initialCuisineTemplates replaces the cuisine's picks
InitRank ==
    /\ ComponentIdle
    /\ state \in RankStates
    /\ props \in { ("Steakhouse" :> [defaultPicks |-> l]) : l \in RankLists }
    /\ dishes = <<>>
    /\ picks = <<>>
    /\ dish = noDish
    /\ macros = noMacros
    /\ score = 0
    /\ pc = "start"

SpecRank == InitRank /\ [][NextRank]_vars

\* the candidates come from the menu text or the built-in templates: no props
InitPicks ==
    /\ ComponentIdle
    /\ state \in PickStates
    /\ props = <<>>
    /\ dishes = <<>>
    /\ picks = <<>>
    /\ dish = noDish
    /\ macros = noMacros
    /\ score = 0
    /\ pc = "start"

SpecPicks == InitPicks /\ [][NextRank]_vars

-----------------------------------------------------------------------------
(* The parser specification: menu texts made of keyword combinations *)

\* every keyword of the protein tests
ProteinKeywords == UNION { proteinRules[i][2] : i \in 1..Len(proteinRules) }

\* the words the menu lines are made of: the protein keywords and three others
ParseWords == ProteinKeywords \cup {"risotto", "Creamed spinach", "in soy glaze"}

\* menu lines: one word, two words in either order, and some in mixed case
ParseLines ==
    ParseWords
    \cup { a \o " " \o b : a \in ParseWords, b \in ParseWords }
    \cup {"Salmon SASHIMI", "NIGIRI of Tuna", "Surf and turf: Prawn, Ribeye",
          "Tempeh-stuffed Pollo", "Seasonal soup"}

\* menu texts: one line, or several lines with blank ones between
ParseTexts ==
    ParseLines
    \cup {"Tofu bowl\n\n  Chicken katsu \nGarden salad",
          "Seasonal soup\nSCAMPI e pollo\n"}

\* the keys of the dietary filters
DietaryKeys ==
    {"avoidPork", "avoidShellfish", "vegetarian", "pescatarian", "dairyFree",
     "glutenFree", "nutAllergy"}

\* dietary records: none set, one filter set or unset, all set
DietaryInputs ==
    {<<>>, [k \in DietaryKeys |-> TRUE]}
    \cup { [x \in {k} |-> b] : k \in DietaryKeys, b \in BOOLEAN }

\* a menu whose lines carry the shellfish, gluten, dairy and nuts allergen tags
AllergenMenu == "Shrimp scampi pasta\nCreamed spinach\nPeanut tofu"

\* menu texts without any non-whitespace character; <<>> stands for no menu text
BlankTexts == {<<>>, <<"">>, <<" \n\t ">>}

\* the default state with a menu text; and every cuisine of the select with a blank
\* menu text, two of them with every menu text
ParseStates ==
    { defaultState @@ [menuText |-> t] : t \in ParseTexts }
    \cup { [defaultState EXCEPT !.cuisine = "French"] @@ [menuText |-> t] : t \in ParseTexts }
    \cup { [defaultState EXCEPT !.cuisine = CuisineKeys[i]]
             @@ (IF b = <<>> THEN <<>> ELSE [menuText |-> b[1]]) :
           i \in 1..Len(CuisineKeys), b \in BlankTexts }
    \cup { [defaultState EXCEPT !.dietary = d] @@ m :
           d \in DietaryInputs, m \in {<<>>, [menuText |-> AllergenMenu]} }
    \cup { [defaultState EXCEPT !.budgetMode = TRUE, !.cuisine = CuisineKeys[i]] @@ m :
           i \in 1..Len(CuisineKeys), m \in {<<>>, [menuText |-> AllergenMenu]} }

InitParse ==
    /\ ComponentIdle
    /\ state \in ParseStates
    /\ props = <<>>
    /\ dishes = <<>>
    /\ picks = <<>>
    /\ dish = noDish
    /\ macros = noMacros
    /\ score = 0
    /\ pc = "start"

SpecParse == InitParse /\ [][NextRank]_vars

-----------------------------------------------------------------------------
(* The script specification: one candidate dish, the preferences set, unset or absent *)

\* an optional list property: absent (<<>>) or one of the lists
optionalList(k, lists) == {<<>>} \cup { [x \in {k} |-> l] : l \in lists }

ScriptDishes ==
    { [name |-> "dish", proteinType |-> "chicken"] @@ c @@ sa @@ si :
        c  \in optionalList("cooking", {<<>>, <<"grilled">>, <<"creamy">>,
                                        <<"fried", "creamy">>, <<"creamy", "creamy">>}),
        sa \in optionalList("sauces", {<<>>, <<"piccata_light">>, <<"soy", "teriyaki">>}),
        si \in optionalList("sides", {<<>>, <<"veg_cup">>, <<"rice_cup">>, <<"pasta_cup">>,
                                      <<"rice_cup", "pasta_cup">>,
                                      <<"pasta_cup", "rice_cup", "rice_cup">>}) }

\* a boolean preference: absent (<<>>), false or true
optionalFlag(k) == {<<>>} \cup { [x \in {k} |-> b] : b \in BOOLEAN }

ScriptStates ==
    { [defaultState EXCEPT !.prefs = [spice |-> "medium"] @@ ls @@ lc] :
        ls \in optionalFlag("lowSodium"), lc \in optionalFlag("lowCarb") }

InitScript ==
    /\ ComponentIdle
    /\ state \in ScriptStates
    /\ props \in { ("Steakhouse" :> [defaultPicks |-> <<d>>]) : d \in ScriptDishes }
    /\ dishes = <<>>
    /\ picks = <<>>
    /\ dish = noDish
    /\ macros = noMacros
    /\ score = 0
    /\ pc = "start"

SpecScript == InitScript /\ [][NextRank]_vars

-----------------------------------------------------------------------------
(* JSON.stringify / JSON.parse over the values a State can hold.
   A JS value is an object (a record of its defined properties) or, for what
   foreign storage contents can parse to, a boxed primitive [typeof |-> ...].
   A JSON text is held by its syntax tree: a node [t |-> "object", members],
   [t |-> "array", items], [t |-> "number", n], [t |-> "string", s],
   [t |-> "true"], [t |-> "false"], [t |-> "null"]; the order of an object's
   members is not kept. *)

NumberFields ==
    {"walkMins", "bodyWeight", "dailyKcal", "proteinTarget", "remainingKcal",
     "remainingProtein", "plan"}

StringFields ==
    {"mode", "goal", "mealType", "cuisine", "socialContext", "menuText",
     "restaurantUrl", "spice", "type", "title", "summary", "date"}

ObjectFields == {"dietary", "prefs", "alcohol"}

ArrayFields == {"favorites", "recents"}

IsPrimitive(v) == Has(v, "typeof")

jsNull == [typeof |-> "null"]

jsNumber(n) == [typeof |-> "number", value |-> n]

\* the JSON syntax of the value x held by property k ("" for the root, an array's items)
RECURSIVE stringifyValue(_, _)
stringifyValue(k, x) ==
    IF k \in NumberFields THEN [t |-> "number", n |-> x]
    ELSE IF k \in StringFields THEN [t |-> "string", s |-> x]
    ELSE IF k \in ArrayFields
    THEN [t |-> "array", items |-> [i \in 1..Len(x) |-> stringifyValue("", x[i])]]
    ELSE IF k \in ObjectFields \/ k = ""
    THEN [t |-> "object", members |-> [f \in DOMAIN x |-> stringifyValue(f, x[f])]]
    ELSE [t |-> IF x THEN "true" ELSE "false"]

JSONstringify(v) ==
    IF ~IsPrimitive(v) THEN stringifyValue("", v)
    ELSE IF v.typeof = "number" THEN [t |-> "number", n |-> v.value]
    ELSE [t |-> "null"]

\* the value a JSON syntax tree denotes, as a property's value
RECURSIVE parseValue(_)
parseValue(node) ==
    CASE node.t = "number" -> node.n
      [] node.t = "string" -> node.s
      [] node.t = "true"   -> TRUE
      [] node.t = "false"  -> FALSE
      [] node.t = "array"  -> [i \in 1..Len(node.items) |-> parseValue(node.items[i])]
      [] node.t = "object" -> [f \in DOMAIN node.members |-> parseValue(node.members[f])]

JSONparse(node) ==
    CASE node.t = "object" -> parseValue(node)
      [] node.t = "number" -> jsNumber(node.n)
      [] node.t = "null"   -> jsNull

-----------------------------------------------------------------------------
(* localStorage, restricted to the item under STORAGE_KEY ('fdc_v1_state'):
   [readable, writable, item]. getItem throws when the storage is not readable,
   setItem when it is not writable. The item is [kind |-> "none"] (getItem
   returns null), [kind |-> "text", chars] for a text that is not JSON, or
   [kind |-> "json", doc] for a JSON text with syntax tree doc. *)

noItem == [kind |-> "none"]

textItem(s) == [kind |-> "text", chars |-> s]

jsonItem(v) == [kind |-> "json", doc |-> JSONstringify(v)]

\* `raw ? ... : ...`: null and the empty string are falsy
rawTruthy(raw) == raw.kind # "none" /\ ~(raw.kind = "text" /\ raw.chars = "")

\* the initializer with `JSON.parse(raw) || initial` in place of the conditional
useLocalStateInitOrInitial(st, initial) ==
    IF ~st.readable THEN initial
    ELSE IF ~rawTruthy(st.item) THEN initial
    ELSE IF st.item.kind = "text" THEN initial
    ELSE IF st.item.doc.t = "null" THEN initial
    ELSE IF st.item.doc.t = "number" /\ st.item.doc.n = 0 THEN initial
    ELSE JSONparse(st.item.doc)

\* useLocalState's useState initializer:
\*   try { raw = localStorage.getItem(key); return raw ? JSON.parse(raw) : initial }
\*   catch { return initial }
useLocalStateInit(st, initial) ==
    IF ~st.readable THEN initial                      \* getItem throws: caught
    ELSE IF ~rawTruthy(st.item) THEN initial          \* raw is null or ''
    ELSE IF st.item.kind = "text" THEN initial        \* JSON.parse throws: caught
    ELSE JSONparse(st.item.doc)

\* the properties the render dereferences through: state.alcohol.plan,
\* state.prefs.lowSodium, state.dietary[k], state.favorites.length
DereferencedFields == {"alcohol", "prefs", "dietary", "favorites"}

\* the render throws a TypeError: a property of undefined (or of null) is read
renderThrows(v) == ~(DereferencedFields \subseteq DOMAIN v)

-----------------------------------------------------------------------------
(* The component: mount, effects, input handlers, clipboard and favorites *)

\* best = ranked[0]; summary = best ? `${name} -- Mods: ${script}. Est: ...` : ''
summaryOf(r) ==
    IF Len(r) = 0 THEN ""
    ELSE LET best == r[1]
         IN      best.dish.name \o " -- Mods: " \o best.script \o ". Est: "
                 \o formatRange(best.macros.kcal, " kcal") \o ", "
                 \o formatRange(best.macros.protein, " g P") \o ", "
                 \o formatRange(best.macros.carbs, " g C") \o ", "
                 \o formatRange(best.macros.fat, " g F") \o "."

\* an optional property as an effect dependency: <<>> when undefined
depOf(st, k) == IF Has(st, k) THEN <<st[k]>> ELSE <<>>

\* `goalFactor10` with the Cut (steady) factor for every goal
goalFactor10Steady(goal) == 115

\* the goal's kcal per unit of body weight, in tenths: 14, 10.5 or 11.5
goalFactor10(goal) ==
    IF goal = <<"Maintenance while traveling">> THEN 140
    ELSE IF goal = <<"Cut (rapid)">> THEN 105 ELSE 115

\* the outcomes of navigator.clipboard.writeText: the promise resolves, the
\* promise rejects, or navigator.clipboard is undefined and the call throws
ClipboardOutcomes == {"resolves", "rejects", "unavailable"}

\* what prompt() returns: null (<<>>), the empty string, or a title
PromptAnswers == {<<>>, <<"">>, <<"Steakhouse: Filet lean">>}

\* new Date().toISOString()
Clock == {"2025-01-01T19:00:00.000Z"}

\* the component is mounted, its effects have run, the user may act
Ready ==
    /\ phase = "mounted"
    /\ ~persistPending
    /\ ~autoPending
    /\ edits < MaxEdits

\* setState(s => ns) from an event handler: a new state object, a re-render is due;
\* after it the persist effect, and the auto-calc effect when bodyWeight or goal changed
setState(ns) ==
    /\ Ready
    /\ state' = ns
    /\ phase' = "dirty"
    /\ persistPending' = TRUE
    /\ autoPending' = (depOf(ns, "bodyWeight") # depOf(state, "bodyWeight")
                       \/ depOf(ns, "goal") # depOf(state, "goal"))
    /\ edits' = edits + 1
    /\ UNCHANGED <<storage, clipboard, uncaught, alerts,
                   unloaded, props, dishes, picks, dish, macros, score, pc>>

\* the component is created: the useState initializer yields the state, and
\* the first render and both effects are due
Mount ==
    /\ phase = "unmounted"
    /\ state' = useLocalStateInit(storage, defaultState)
    /\ phase' = "dirty"
    /\ persistPending' = TRUE
    /\ autoPending' = TRUE
    /\ UNCHANGED <<storage, clipboard, uncaught, alerts, edits,
                   unloaded, props, dishes, picks, dish, macros, score, pc>>

\* a render: the body of the component evaluates the memos from the state; a
\* TypeError thrown by it is caught by nobody and the component is taken down
Render ==
    /\ phase = "dirty"
    /\ IF renderThrows(state)
       THEN /\ phase' = "crashed"
            /\ uncaught' = uncaught \cup {"TypeError: render"}
            /\ persistPending' = FALSE
            /\ autoPending' = FALSE
            /\ UNCHANGED <<dishes, picks>>
       ELSE /\ phase' = "mounted"
            /\ dishes' = dishesOf(state, props)
            /\ picks' = ranked(dishes', state)
            /\ UNCHANGED <<uncaught, persistPending, autoPending>>
    /\ UNCHANGED <<state, storage, clipboard, alerts, edits,
                   unloaded, props, dish, macros, score, pc>>

\* useEffect(() => { localStorage.setItem(key, JSON.stringify(val)) }, [key, val])
PersistEffect ==
    /\ phase = "mounted"
    /\ persistPending
    /\ persistPending' = FALSE
    /\ IF storage.writable
       THEN /\ storage' = [storage EXCEPT !.item = jsonItem(state)]
            /\ UNCHANGED <<phase, uncaught, autoPending>>
       ELSE /\ phase' = "crashed"
            /\ uncaught' = uncaught \cup {"setItem"}
            /\ autoPending' = FALSE
            /\ UNCHANGED storage
    /\ UNCHANGED <<state, clipboard, alerts, edits,
                   unloaded, props, dishes, picks, dish, macros, score, pc>>

\* the auto-calc effect, declared after the persist effect
AutoCalcEffect ==
    /\ phase = "mounted"
    /\ ~persistPending
    /\ autoPending
    /\ autoPending' = FALSE
    /\ IF ~Truthy(state, "bodyWeight")
       THEN UNCHANGED <<state, persistPending>>
       ELSE /\ state' = With(With(state,
                    "dailyKcal", MathRound(goalFactor10(depOf(state, "goal")) * state.bodyWeight, 10)),
                    "proteinTarget", MathRound(9 * state.bodyWeight, 10))
            /\ persistPending' = TRUE
    /\ phase' = IF Truthy(state, "bodyWeight") THEN "dirty" ELSE phase
    /\ UNCHANGED <<storage, clipboard, uncaught, alerts, edits,
                   unloaded, props, dishes, picks, dish, macros, score, pc>>

\* the values the user enters in this model
CuisineEdits == {"Italian", "Mexican"}

GoalEdits == {"Cut (rapid)", "Maintenance while traveling"}

NumberEdits == {0, 180}

MenuEdits == {"", "Miso cod, rice"}

PrefEdits == {"lowSodium", "lowCarb", "highFiber"}

DietaryEdits == {"vegetarian"}

SetCuisine == \E c \in CuisineEdits : setState(With(state, "cuisine", c))

SetRemainingKcal == \E n \in NumberEdits : setState(With(state, "remainingKcal", n))

SetRemainingProtein == \E n \in NumberEdits : setState(With(state, "remainingProtein", n))

SetGoal == \E g \in GoalEdits : setState(With(state, "goal", g))

SetBodyWeight == \E n \in NumberEdits : setState(With(state, "bodyWeight", n))

SetDailyKcal == \E n \in NumberEdits : setState(With(state, "dailyKcal", n * 10))

SetProteinTarget == \E n \in NumberEdits : setState(With(state, "proteinTarget", n))

SetTrainingDay == setState(With(state, "trainingDay", ~state.trainingDay))

SetMenuText == \E t \in MenuEdits : setState(With(state, "menuText", t))

SetDietary ==
    \E k \in DietaryEdits, checked \in BOOLEAN :
        setState(With(state, "dietary", With(state.dietary, k, checked)))

SetPref ==
    \E k \in PrefEdits :
        setState(With(state, "prefs", With(state.prefs, k, ~Flag(state.prefs, k))))

SetBudgetMode == setState(With(state, "budgetMode", ~state.budgetMode))

\* copySummary: try { await writeText(summary); alert('Summary copied.') } catch {}
CopySummary ==
    /\ Ready
    /\ \E outcome \in ClipboardOutcomes :
         IF outcome = "resolves"
         THEN /\ clipboard' = summaryOf(picks)
              /\ alerts' = alerts + 1
         ELSE UNCHANGED <<clipboard, alerts>>
    /\ edits' = edits + 1
    /\ UNCHANGED <<state, storage, phase, persistPending, autoPending, uncaught,
                   unloaded, props, dishes, picks, dish, macros, score, pc>>

\* [{title, summary, date}, ...s.favorites].slice(0, 50)
favoritesCap == 50

\* `SaveFavorite` with the new entry put after the saved ones
SaveFavoriteAppended ==
    /\ Ready
    /\ LET summary == summaryOf(picks)
       IN  IF summary = ""
           THEN /\ edits' = edits + 1
                /\ UNCHANGED <<state, storage, phase, persistPending, autoPending,
                               clipboard, uncaught, alerts,
                               unloaded, props, dishes, picks, dish, macros, score, pc>>
           ELSE \E answer \in PromptAnswers, now \in Clock :
                  LET name  == picks[1].dish.name
                      title == IF answer # <<>> /\ answer # <<"">> THEN answer[1]
                               ELSE IF name # "" THEN name ELSE "Favorite"
                      entry == [title |-> title, summary |-> summary, date |-> now]
                  IN  setState(With(state, "favorites",
                                    Slice0(state.favorites \o <<entry>>, favoritesCap)))

\* saveFavorite: nothing without a summary; else the titled summary is put first
SaveFavorite ==
    /\ Ready
    /\ LET summary == summaryOf(picks)
       IN  IF summary = ""
           THEN /\ edits' = edits + 1
                /\ UNCHANGED <<state, storage, phase, persistPending, autoPending,
                               clipboard, uncaught, alerts,
                               unloaded, props, dishes, picks, dish, macros, score, pc>>
           ELSE \E answer \in PromptAnswers, now \in Clock :
                  LET name  == picks[1].dish.name
                      title == IF answer # <<>> /\ answer # <<"">> THEN answer[1]
                               ELSE IF name # "" THEN name ELSE "Favorite"
                      entry == [title |-> title, summary |-> summary, date |-> now]
                  IN  setState(With(state, "favorites",
                                    Slice0(<<entry>> \o state.favorites, favoritesCap)))

\* the Copy button of a favorite: navigator.clipboard.writeText(f.summary),
\* neither awaited nor inside a try
CopyFavorite ==
    /\ Ready
    /\ \E i \in 1..Len(state.favorites), outcome \in ClipboardOutcomes :
         CASE outcome = "resolves" ->
                /\ clipboard' = state.favorites[i].summary
                /\ UNCHANGED uncaught
           [] outcome = "rejects" ->
                /\ uncaught' = uncaught \cup {"unhandledrejection: writeText"}
                /\ UNCHANGED clipboard
           [] outcome = "unavailable" ->
                /\ uncaught' = uncaught \cup {"TypeError: writeText"}
                /\ UNCHANGED clipboard
    /\ edits' = edits + 1
    /\ UNCHANGED <<state, storage, phase, persistPending, autoPending, alerts,
                   unloaded, props, dishes, picks, dish, macros, score, pc>>

\* the page is closed, once, with the component at rest: the component's state and
\* memos are gone, the storage and the clipboard stay; Mount then loads it again
Reload ==
    /\ phase = "mounted"
    /\ ~persistPending
    /\ ~autoPending
    /\ unloaded = notUnloaded
    /\ unloaded' = [closed |-> TRUE, state |-> state, edits |-> edits]
    /\ phase' = "unmounted"
    /\ state' = defaultState
    /\ dishes' = <<>>
    /\ picks' = <<>>
    /\ UNCHANGED <<storage, persistPending, autoPending, clipboard, uncaught, alerts, edits,
                   props, dish, macros, score, pc>>

\* stored states: one with a body weight and hand-entered targets, one with a favorite
storedWeighed ==
    defaultState @@ [bodyWeight |-> 175, dailyKcal |-> 2400, proteinTarget |-> 200]

storedFavorite ==
    [defaultState EXCEPT !.favorites =
        <<[title |-> "Usual", summary |-> "Branzino -- Mods: no butter.",
           date |-> "2024-12-24T18:30:00.000Z"]>>]

\* what the storage holds under the key when the page loads
StoredItems ==
    {noItem, textItem(""), textItem("{oops"),
     jsonItem(defaultState), jsonItem(storedWeighed), jsonItem(storedFavorite),
     jsonItem(jsNull), jsonItem(jsNumber(0)), jsonItem(<<>>)}

StorageInputs ==
    { [readable |-> r, writable |-> w, item |-> it] :
        r \in BOOLEAN, w \in BOOLEAN, it \in StoredItems }

Init ==
    /\ state = defaultState
    /\ storage \in StorageInputs
    /\ phase = "unmounted"
    /\ persistPending = FALSE
    /\ autoPending = FALSE
    /\ clipboard = ""
    /\ uncaught = {}
    /\ alerts = 0
    /\ edits = 0
    /\ unloaded = notUnloaded
    /\ props = <<>>
    /\ dishes = <<>>
    /\ picks = <<>>
    /\ dish = noDish
    /\ macros = noMacros
    /\ score = 0
    /\ pc = "component"

Next ==
    \/ Mount
    \/ Render
    \/ PersistEffect
    \/ AutoCalcEffect
    \/ SetCuisine
    \/ SetRemainingKcal
    \/ SetRemainingProtein
    \/ SetGoal
    \/ SetBodyWeight
    \/ SetDailyKcal
    \/ SetProteinTarget
    \/ SetTrainingDay
    \/ SetMenuText
    \/ SetDietary
    \/ SetPref
    \/ SetBudgetMode
    \/ CopySummary
    \/ SaveFavorite
    \/ CopyFavorite
    \/ Reload

Spec == Init /\ [][Next]_vars

\* n stored favorites, told apart by their titles
storedFavorites(n) ==
    [i \in 1..n |-> [title |-> "Saved " \o ToString(i),
                     summary |-> "Branzino -- Mods: no butter.",
                     date |-> "2024-12-24T18:30:00.000Z"]]

\* how many favorites the stored state holds: none, one below the cap, the cap
FavoriteCounts == {0, favoritesCap - 1, favoritesCap}

\* the component loading a stored state with at most favoritesCap favorites
InitFavorites ==
    /\ state = defaultState
    /\ storage \in { [readable |-> TRUE, writable |-> TRUE,
                       item |-> jsonItem([defaultState EXCEPT !.favorites = storedFavorites(n)])] :
                      n \in FavoriteCounts }
    /\ phase = "unmounted"
    /\ persistPending = FALSE
    /\ autoPending = FALSE
    /\ clipboard = ""
    /\ uncaught = {}
    /\ alerts = 0
    /\ edits = 0
    /\ unloaded = notUnloaded
    /\ props = <<>>
    /\ dishes = <<>>
    /\ picks = <<>>
    /\ dish = noDish
    /\ macros = noMacros
    /\ score = 0
    /\ pc = "component"

SpecFavorites == InitFavorites /\ [][Next]_vars

-----------------------------------------------------------------------------
(* Claims *)

\* scoreDish of a candidate dish under the state's context, computed from the dish
dishScore(d, st) == scoreDish(d, estimateMacros(d), ctxOf(st), priceOf(d))

\* how many entries of seq equal x
Count(seq, x) == Cardinality({i \in 1..Len(seq) : seq[i] = x})

pickedDishes == [i \in 1..Len(picks) |-> picks[i].dish]

\* C1: for every candidate list and context the ranker returns min(3, n) picks, taken from
\* the candidates, whose scores are non-increasing from first to last, and no candidate
\* left out of the picks has a score strictly greater than a pick's.
C1_RankedTopThree ==
    pc = "ranked" =>
        /\ Len(picks) = Min(3, Len(dishes))
        /\ \A i \in 1..Len(picks) : Count(pickedDishes, picks[i].dish) <= Count(dishes, picks[i].dish)
        /\ \A i \in 1..Len(picks) : \A j \in (i + 1)..Len(picks) :
               dishScore(picks[i].dish, state) >= dishScore(picks[j].dish, state)
        /\ \A k \in 1..Len(dishes) :
               Count(pickedDishes, dishes[k]) < Count(dishes, dishes[k])
               => \A i \in 1..Len(picks) : dishScore(dishes[k], state) <= dishScore(picks[i].dish, state)

\* four candidates ranked: the first candidate is not the first pick, the scores of the
\* picks differ, and a candidate with a lower score than every pick is left out
C1_Witness ==
    /\ pc = "ranked"
    /\ Len(dishes) = 4
    /\ Len(picks) = 3
    /\ picks[1].dish # dishes[1]
    /\ dishScore(picks[1].dish, state) > dishScore(picks[3].dish, state)
    /\ \E k \in 1..4 : /\ Count(pickedDishes, dishes[k]) = 0
                       /\ dishScore(dishes[k], state) < dishScore(picks[3].dish, state)

MacroFields == {"kcal", "protein", "carbs", "fat", "fiber"}

\* C2: every field of the MacroRange estimateMacros returns is a pair of non-negative
\* integers [min, max] with min <= max, whatever the dish's protein type and tags.
C2_MacroRangeWellFormed ==
    pc = "estimated" =>
        \A f \in MacroFields :
            /\ macros[f][1] \in Nat
            /\ macros[f][2] \in Nat
            /\ macros[f][1] <= macros[f][2]

\* an estimate of a dish with a repeated tag of the table and a tag the table lacks
C2_Witness ==
    /\ pc = "estimated"
    /\ \/ dish.cooking = <<"fried", "fried">>
       \/ dish.sides = <<"polenta", "edamame_cup">>
    /\ macros.kcal[1] < macros.kcal[2]

\* C3: for a dish flagged high-sodium, any MacroRange and any context, the score with
\* lowSodium on is strictly less than the score with lowSodium off, all else equal.
C3_LowSodiumLowersScore ==
    (pc = "scored" /\ isHighSodiumOf(dish)) =>
        IF Flag(ctxOf(state), "lowSodium")
        THEN score < scoreDish(dish, macros, With(ctxOf(state), "lowSodium", FALSE), priceOf(dish))
        ELSE scoreDish(dish, macros, With(ctxOf(state), "lowSodium", TRUE), priceOf(dish)) < score

\* a high-sodium dish without the soy_heavy tag scored with lowSodium on: 7.5 points less
C3_Witness ==
    /\ pc = "scored"
    /\ isHighSodiumOf(dish)
    /\ ~Includes(cookingOf(dish), "soy_heavy")
    /\ Flag(ctxOf(state), "lowSodium")
    /\ score + 750 = scoreDish(dish, macros, With(ctxOf(state), "lowSodium", FALSE), priceOf(dish))

KnownProteins == {"beef", "fish", "chicken", "shrimp", "tofu", "sashimi"}

\* the delta (bound i of field f) that a table holds for a tag, 0 when it holds none
deltaOf(table, tag, f, i) ==
    IF tag \in DOMAIN table /\ f \in DOMAIN table[tag] THEN table[tag][f][i] ELSE 0

RECURSIVE sumDeltas(_, _, _, _)
sumDeltas(table, tags, f, i) ==
    IF tags = <<>> THEN 0
    ELSE deltaOf(table, Head(tags), f, i) + sumDeltas(table, Tail(tags), f, i)

\* the summed deltas of all the tags of a dish
dishDeltas(d, f, i) ==
    sumDeltas(cookingAdj, cookingOf(d), f, i) + sumDeltas(sauceAdj, saucesOf(d), f, i)
    + sumDeltas(sideAdj, sidesOf(d), f, i)

\* C4: for a dish whose proteinType is absent or none of the six known ones, the kcal,
\* protein and fat bounds are the placeholder's (250, 30, 8) plus the summed deltas of
\* the dish's tags.
C4_UnknownProteinUsesPlaceholder ==
    (pc = "estimated" /\ (Has(dish, "proteinType") => dish.proteinType \notin KnownProteins)) =>
        \A i \in 1..2 :
            /\ macros.kcal[i] = 250 + dishDeltas(dish, "kcal", i)
            /\ macros.protein[i] = 30 + dishDeltas(dish, "protein", i)
            /\ macros.fat[i] = 8 + dishDeltas(dish, "fat", i)

\* an estimate of a dish typed "Beef" (not the known "beef") with a known cooking tag
C4_Witness ==
    /\ pc = "estimated"
    /\ ProteinIs(dish, "Beef")
    /\ dish.cooking = <<"fried">>
    /\ dish.sides = <<"edamame_cup">>
    /\ macros.kcal = <<570, 790>>
    /\ macros.protein = <<41, 48>>

\* C5: parseMenu on the single line "Filet mignon 8 oz with be'arnaise" yields exactly one
\* dish, typed beef, whose cooking tags include creamy, whose sauce tags include
\* be'arnaise, and whose isHighSodium is false.
C5_FiletLineParsed ==
    (pc # "start" /\ Has(state, "menuText") /\ state.menuText = FiletLine) =>
        /\ Len(dishes) = 1
        /\ ProteinIs(dishes[1], "beef")
        /\ Includes(dishes[1].cooking, "creamy")
        /\ Includes(dishes[1].sauces, "be'arnaise")
        /\ dishes[1].isHighSodium = FALSE

\* the filet line parsed: the one dish carries the line as its name
C5_Witness ==
    /\ pc = "dishes"
    /\ Has(state, "menuText")
    /\ state.menuText = FiletLine
    /\ Len(dishes) = 1
    /\ dishes[1].name = FiletLine

\* no menu text, or one made of white space only
MenuBlank(st) ==
    Has(st, "menuText") => \A i \in 1..Len(st.menuText) : isSpace(charAt(st.menuText, i))

\* C6: with cuisine Sushi/Japanese, the built-in templates, and the menu text absent,
\* empty or white space only, the picks include, in every context, a sashimi dish whose
\* side tags contain both edamame_cup and cucumber_salad.
C6_SushiIncludesSashimi ==
    (pc = "ranked" /\ state.cuisine = "Sushi/Japanese" /\ MenuBlank(state)) =>
        \E i \in 1..Len(picks) :
            /\ ProteinIs(picks[i].dish, "sashimi")
            /\ Includes(sidesOf(picks[i].dish), "edamame_cup")
            /\ Includes(sidesOf(picks[i].dish), "cucumber_salad")

\* Sushi/Japanese ranked with a menu text of white space only, low sodium on and training
\* day on, 1000 kcal remaining: three picks, the sashimi dish among them
C6_Witness ==
    /\ pc = "ranked"
    /\ state.cuisine = "Sushi/Japanese"
    /\ Has(state, "menuText")
    /\ state.menuText = " \n\t \n"
    /\ Flag(state.prefs, "lowSodium")
    /\ state.trainingDay
    /\ remainingKcal(state) = 1000
    /\ Len(picks) = 3
    /\ \E i \in 1..3 : picks[i].dish = TEMPLATES["Sushi/Japanese"].defaultPicks[1]

Within(r, lo, hi) == lo <= r[1] /\ r[2] <= hi

\* the default context: nothing entered, the flags as in defaultState
DefaultContext(st) ==
    /\ ~Has(st, "remainingKcal") /\ ~Has(st, "remainingProtein")
    /\ st.trainingDay = defaultState.trainingDay
    /\ st.prefs = defaultState.prefs
    /\ st.budgetMode = defaultState.budgetMode

\* C7: for the Steakhouse template's 8 oz grilled filet, estimateMacros returns a kcal
\* range within 520-650 and a protein range within 55-65, and the dish is ranked first
\* among the Steakhouse default picks under the default context.
C7_FiletAcceptance ==
    (pc = "ranked" /\ state.cuisine = "Steakhouse" /\ MenuBlank(state) /\ DefaultContext(state)) =>
        /\ picks[1].dish = TEMPLATES["Steakhouse"].defaultPicks[1]
        /\ Within(picks[1].macros.kcal, 520, 650)
        /\ Within(picks[1].macros.protein, 55, 65)

\* C8: with cuisine Italian, no menu text, 650 kcal and 45 g protein remaining and
\* training day on (the rest at its default), the first pick is the grilled fish dish
\* or the chicken piccata dish.
C8_ItalianTopPick ==
    (/\ pc = "ranked" /\ state.cuisine = "Italian" /\ MenuBlank(state)
     /\ remainingKcal(state) = 650 /\ remainingProtein(state) = 45
     /\ state.trainingDay /\ state.prefs = defaultState.prefs
     /\ state.budgetMode = defaultState.budgetMode) =>
        picks[1].dish \in { TEMPLATES["Italian"].defaultPicks[1],
                            TEMPLATES["Italian"].defaultPicks[2] }

\* the stored item could not be read: getItem throws, returns null or '', or
\* returns a text that JSON.parse rejects
readFails(st) == ~st.readable \/ st.item.kind = "none" \/ st.item.kind = "text"

\* between the creation of the component and its first persist effect: the
\* storage is still what the initializer read
InitialLoad ==
    /\ phase \in {"dirty", "mounted"}
    /\ persistPending
    /\ autoPending
    /\ edits = 0

C10_ClipboardFailureCaught ==
    [][(CopySummary \/ CopyFavorite) => (uncaught' = uncaught /\ state' = state)]_vars

\* the protein types in the order the specification fixes
ProteinOrder == <<"beef", "fish", "chicken", "shrimp", "tofu", "sashimi">>

\* the keywords of a protein type
keywordsOf(type) ==
    LET i == CHOOSE j \in 1..Len(proteinRules) : proteinRules[j][1] = type
    IN  proteinRules[i][2]

\* the positions in ProteinOrder of the types of which the line has a keyword
typesIn(line) ==
    { j \in 1..Len(ProteinOrder) : test(keywordsOf(ProteinOrder[j]), toLowerCase(line)) }

\* the candidates are parsed menu lines
Parsed == pc \in {"dishes", "ranked"} /\ ~MenuBlank(state)

\* C11: parseMenu gives a line at most one protein type: the first, in the order beef,
\* fish, chicken, shrimp, tofu, sashimi, of the types of which the line contains a
\* keyword; a line without any protein keyword gets no protein type.
C11_FirstProteinWins ==
    Parsed =>
        \A i \in 1..Len(dishes) :
            LET types == typesIn(dishes[i].name)
            IN  IF types = {} THEN ~Has(dishes[i], "proteinType")
                ELSE /\ Has(dishes[i], "proteinType")
                     /\ dishes[i].proteinType = ProteinOrder[CHOOSE j \in types : \A k \in types : j <= k]

\* a line with a fish keyword and 'sashimi' is typed fish
C11_Witness ==
    /\ Parsed
    /\ Len(dishes) = 1
    /\ dishes[1].name = "Salmon SASHIMI"
    /\ typesIn(dishes[1].name) = {2, 6}
    /\ dishes[1].proteinType = "fish"

\* "; " and the fragment when its condition holds, nothing otherwise
fragmentIf(cond, fragment) == IF cond THEN "; " \o fragment ELSE ""

\* the script the specification describes for a dish and a preference set
expectedScript(d, prefs) ==
    "grilled if possible; no butter"
    \o fragmentIf((Has(d, "cooking") /\ \E i \in 1..Len(d.cooking) : d.cooking[i] = "creamy")
                  \/ (Has(d, "sauces") /\ d.sauces # <<>>),
                  "sauce on the side, light")
    \o fragmentIf(Has(d, "sides") /\ \E i \in 1..Len(d.sides) : d.sides[i] \in {"rice_cup", "pasta_cup"},
                  "half starch, double vegetables")
    \o fragmentIf(Has(prefs, "lowSodium") /\ prefs.lowSodium, "easy on salt, skip soy/miso")
    \o fragmentIf(Has(prefs, "lowCarb") /\ prefs.lowCarb, "swap starch for extra greens")

\* C12: the script of buildScript is 'grilled if possible', then 'no butter', then the
\* conditional fragments, each at most once and in the order sauce-on-the-side (cooking
\* tag creamy or any sauce tag), half-starch (side rice_cup or pasta_cup), low-sodium
\* (prefs.lowSodium), low-carb (prefs.lowCarb), each present iff its condition holds.
C12_ScriptFragmentsInOrder ==
    pc = "ranked" =>
        \A i \in 1..Len(picks) :
            picks[i].script = expectedScript(picks[i].dish, state.prefs)

\* a dish and preferences for which all four conditional fragments are present
C12_Witness ==
    /\ pc = "ranked"
    /\ Len(picks) = 1
    /\ Has(picks[1].dish, "cooking") /\ picks[1].dish.cooking = <<"creamy", "creamy">>
    /\ Has(picks[1].dish, "sides") /\ picks[1].dish.sides = <<"pasta_cup", "rice_cup", "rice_cup">>
    /\ Flag(state.prefs, "lowSodium") /\ Flag(state.prefs, "lowCarb")
    /\ picks[1].script = "grilled if possible; no butter; sauce on the side, light; half starch, double vegetables; easy on salt, skip soy/miso; swap starch for extra greens"

\* the remaining-kcal values a score is compared against
KcalTargets == {0, 300, 650, 1000}

\* twice the distance from a remaining-kcal value to the macro range's kcal midpoint
kcalDistance2(r, m) == Abs(2 * r - (m.kcal[1] + m.kcal[2]))

\* C13: for a fixed dish, macro range and context, a remaining-kcal value r1 >= 0 that
\* is at most as far from the kcal midpoint as a value r2 >= 0 scores at least as high.
C13_KcalClosenessMonotone ==
    (pc = "scored" /\ Has(state, "remainingKcal")) =>
        \A r2 \in KcalTargets :
            kcalDistance2(state.remainingKcal, macros) <= kcalDistance2(r2, macros) =>
                score >= scoreDish(dish, macros, With(ctxOf(state), "remainingKcal", r2), priceOf(dish))

\* C14: for a dish that is not flagged isHighSodium and has no soy_heavy cooking tag,
\* the score with lowSodium on equals the score with lowSodium off, all else equal, even
\* when a sauce or cooking tag of the dish is marked sodium: true in the tables.
C14_LowSodiumFrame ==
    (pc = "scored" /\ ~isHighSodiumOf(dish) /\ ~Includes(cookingOf(dish), "soy_heavy")) =>
        score = scoreDish(dish, macros, With(ctxOf(state), "lowSodium", ~Flag(ctxOf(state), "lowSodium")),
                          priceOf(dish))

\* the template's grilled salmon teriyaki, whose sauce and glaze are marked sodium:
\* true, scored with lowSodium on
C14_Witness ==
    /\ pc = "scored"
    /\ dish = TEMPLATES["Sushi/Japanese"].defaultPicks[2]
    /\ sodiumMarked(sauceAdj, dish.sauces[1])
    /\ sodiumMarked(cookingAdj, dish.cooking[2])
    /\ Flag(ctxOf(state), "lowSodium")
    /\ score = scoreDish(dish, macros, With(ctxOf(state), "lowSodium", FALSE), priceOf(dish))

\* the menu text has at least one character that is not white space
MenuHasText(st) ==
    Has(st, "menuText") /\ \E i \in 1..Len(st.menuText) : ~isSpace(charAt(st.menuText, i))

\* the cuisines of the select that have a built-in template
TemplateCuisines == {"Steakhouse", "Italian", "Sushi/Japanese"}

\* C15: the candidates are the parsed menu lines, at least one, whenever the menu text
\* has a non-whitespace character, whatever the cuisine and the lines; otherwise they
\* are the selected cuisine's template picks, and for a cuisine without a template
\* the candidates and the ranked picks are empty.
C15_CandidateSource ==
    (pc \in {"dishes", "ranked"} /\ props = <<>>) =>
        IF MenuHasText(state)
        THEN dishes = parseMenu(state.menuText) /\ Len(dishes) >= 1
        ELSE IF state.cuisine \in TemplateCuisines
        THEN dishes = TEMPLATES[state.cuisine].defaultPicks
        ELSE dishes = <<>> /\ (pc = "ranked" => picks = <<>>)

\* French has no template: a white-space menu text leaves nothing to rank
C15_Witness ==
    /\ pc = "ranked"
    /\ state.cuisine = "French"
    /\ Has(state, "menuText") /\ state.menuText = " \n\t "
    /\ dishes = <<>>
    /\ picks = <<>>

\* the candidates that the menu line 'Creamed spinach' was parsed into
creamedSpinachDishes ==
    IF pc \in {"dishes", "ranked"} /\ MenuHasText(state)
    THEN { dishes[i] : i \in { j \in 1..Len(dishes) : dishes[j].name = "Creamed spinach" } }
    ELSE {}

\* the score of a dish under the state's context with lowSodium set to b
scoreWithLowSodium(d, b) ==
    scoreDish(d, estimateMacros(d), With(ctxOf(state), "lowSodium", b), priceOf(d))

\* what the score of a dish loses to its cooking tags, the macro range left alone
cookingPenalty(d) ==
    scoreDish([d EXCEPT !.cooking = <<>>], estimateMacros(d), ctxOf(state), priceOf(d))
    - scoreDish(d, estimateMacros(d), ctxOf(state), priceOf(d))

\* C16 (as stated): the line 'Creamed spinach' is parsed with the side tags pasta_cup
\* and veg_cup, and the dish triggers neither the sodium penalty nor the hidden-fat
\* penalty under any context.
C16_CreamedSpinachNoPenalty ==
    \A d \in creamedSpinachDishes :
        /\ Includes(d.sides, "pasta_cup") /\ Includes(d.sides, "veg_cup")
        /\ scoreWithLowSodium(d, TRUE) = scoreWithLowSodium(d, FALSE)
        /\ cookingPenalty(d) = 0

\* C16 (amended): the line 'Creamed spinach' is parsed with the side tags pasta_cup and
\* veg_cup and with the cooking tag creamy; under every context the dish does not
\* trigger the sodium penalty and does trigger the hidden-fat penalty of 4.8 points.
C16_CreamedSpinachHiddenFat ==
    \A d \in creamedSpinachDishes :
        /\ Includes(d.sides, "pasta_cup") /\ Includes(d.sides, "veg_cup")
        /\ Includes(d.cooking, "creamy")
        /\ scoreWithLowSodium(d, TRUE) = scoreWithLowSodium(d, FALSE)
        /\ cookingPenalty(d) = 480

\* the line is among the parsed candidates and the context asks for low sodium
C16_Witness ==
    /\ creamedSpinachDishes # {}
    /\ pc = "ranked"
    /\ dishes[1].name = "Creamed spinach"
    /\ dishes[1].sides = <<"pasta_cup", "veg_cup">>
    /\ Flag(state.prefs, "lowSodium")
    /\ cookingPenalty(dishes[1]) = 480

\* the dish has no cooking, sauce or side tag
Untagged(d) == cookingOf(d) = <<>> /\ saucesOf(d) = <<>> /\ sidesOf(d) = <<>>

\* C17: for a dish with no cooking, sauce or side tags, each field of the estimated
\* MacroRange (kcal, protein, fat, carbs, fiber) is [b, b], b being the value of the
\* selected base tuple for that field.
C17_AccumulatorsStartFromBase ==
    (pc = "estimated" /\ Untagged(dish)) =>
        \A f \in MacroFields : macros[f] = <<baseOf(dish)[f], baseOf(dish)[f]>>

\* the component is mounted and its effects have run
AtRest == phase = "mounted" /\ ~persistPending /\ ~autoPending

\* C18: with the effects run after every edit, the item stored under the key is the
\* serialization of the current state; and once the page has been closed and loaded
\* again from a readable storage, and the effects have run, the state is exactly the
\* state the user had when closing it, hand-entered daily targets included.
C18_PersistenceRoundTrip ==
    AtRest =>
        /\ storage.item = jsonItem(state)
        /\ (unloaded.closed /\ unloaded.edits = edits /\ storage.readable) => state = unloaded.state

\* the state with no dietary filter set
noDietary(st) == [st EXCEPT !.dietary = <<>>]

\* C19: the ranked picks do not depend on the dietary filters: they are the picks of
\* the state that differs only in having no dietary filter, so a dish with the
\* shellfish, dairy, gluten or nuts allergen tag is ranked the same whether or not
\* the matching filter is set.
C19_DietaryNonInterference ==
    pc = "ranked" => picks = ranked(dishesOf(noDietary(state), props), noDietary(state))

\* avoid-shellfish is set and the first pick carries the shellfish allergen tag
C19_Witness ==
    /\ pc = "ranked"
    /\ Flag(state.dietary, "avoidShellfish")
    /\ Len(picks) = 3
    /\ \E i \in 1..Len(picks) :
         Has(picks[i].dish, "allergens") /\ Includes(picks[i].dish.allergens, "shellfish")

\* a Save-to-Favorites step taken while a top pick exists: the new entry, with the
\* summary of the top pick, is first; the earlier entries follow in their order;
\* the list grows by one up to 50 entries, so only entries beyond the 50th go
SaveKeepsOrder ==
    (SaveFavorite /\ Len(picks) > 0) =>
        LET old == state.favorites
            new == state'.favorites
        IN  /\ Len(new) = (IF Len(old) < 50 THEN Len(old) + 1 ELSE 50)
            /\ new[1].summary = summaryOf(picks)
            /\ new[1].date \in Clock
            /\ \A i \in 2..Len(new) : new[i] = old[i - 1]

\* C20: starting from a stored state with at most 50 favorites, the favorites list
\* never has more than 50 entries, and each Save-to-Favorites taken while a top pick
\* exists puts the new entry at index 0, keeps the earlier entries in their order and
\* drops only the entries beyond the 50th.
C20_FavoritesCapped ==
    /\ [](Has(state, "favorites") => Len(state.favorites) <= 50)
    /\ [][SaveKeepsOrder]_vars

\* a save into a full list: 50 entries, the new one first, then the first 49 stored
\* ones, the 50th stored one dropped
C20_Witness ==
    /\ phase = "mounted"
    /\ Len(state.favorites) = 50
    /\ state.favorites[1].date \in Clock
    /\ state.favorites[2] = storedFavorites(50)[1]
    /\ state.favorites[50] = storedFavorites(50)[49]

\* the State fields the claim names
CompleteFields == {"mode", "cuisine", "prefs", "dietary", "alcohol", "favorites"}

\* C21: whatever is stored under the key, the state the component starts with is a
\* complete State (mode, cuisine, prefs, dietary, alcohol and favorites defined), and
\* computing the ranking and rendering never dereferences a missing field.
C21_StartsComplete ==
    phase # "unmounted" =>
        /\ CompleteFields \subseteq DOMAIN state
        /\ "TypeError: render" \notin uncaught

\* the claim's k for a goal, in tenths
kTenths(goal) ==
    CASE goal = "Maintenance while traveling" -> 140
      [] goal = "Cut (rapid)"                 -> 105
      [] goal = "Cut (steady)"                -> 115

\* n is x10 / 10 rounded to the nearest integer, a half rounded up
IsRoundOfTenths(n, x10) == 10 * n - 5 <= x10 /\ x10 < 10 * n + 5

\* the fields the auto-calc step writes
AutoCalcFields == {"dailyKcal", "proteinTarget"}

\* a step of the auto-calc effect: with a non-zero body weight both targets are
\* overwritten and every other field is kept; without one the state is kept
AutoCalcStep ==
    AutoCalcEffect =>
        IF Has(state, "bodyWeight") /\ state.bodyWeight # 0
        THEN /\ DOMAIN state' = DOMAIN state \cup AutoCalcFields
             /\ IsRoundOfTenths(state'.dailyKcal, kTenths(state.goal) * state.bodyWeight)
             /\ IsRoundOfTenths(state'.proteinTarget, 9 * state.bodyWeight)
             /\ \A k \in DOMAIN state \ AutoCalcFields : state'[k] = state[k]
        ELSE state' = state

\* a handler step that changes body weight or goal makes the auto-calc effect due,
\* and so does the mount
AutoCalcDue ==
    /\ Mount => autoPending'
    /\ (phase = "mounted" /\ phase' = "dirty" /\ ~autoPending
        /\ (depOf(state', "bodyWeight") # depOf(state, "bodyWeight")
            \/ depOf(state', "goal") # depOf(state, "goal")))
       => autoPending'

\* C22: whenever body weight or goal changes, and at mount, the auto-calc step runs;
\* with a non-zero body weight it overwrites dailyKcal with round(k x bodyWeight)
\* (k = 14, 10.5 or 11.5 by goal) and proteinTarget with round(0.9 x bodyWeight),
\* whatever was entered by hand, and changes no other field; with body weight unset
\* or 0 it changes nothing.
C22_AutoCalcOverwrites == [][AutoCalcStep /\ AutoCalcDue]_vars

\* the stored hand-entered targets 2400 and 200 replaced at mount by
\* round(11.5 x 175) = 2013 and round(0.9 x 175) = 158
C22_Witness ==
    /\ phase # "unmounted"
    /\ ~autoPending
    /\ storage.item = jsonItem(storedWeighed)
    /\ state = [storedWeighed EXCEPT !.dailyKcal = 2013, !.proteinTarget = 158]

\* the state with budget mode switched
budgetFlipped(st) == [st EXCEPT !.budgetMode = ~st.budgetMode]

\* the dishes of the picks, in rank order
pickDishes(ps) == [i \in 1..Len(ps) |-> ps[i].dish]

\* C23: no dish that parseMenu or a built-in template produces carries a price, so
\* scoreDish of every candidate and the order of the ranked picks are the same with
\* budget mode on and with budget mode off, everything else fixed.
C23_BudgetNonInterference ==
    pc = "ranked" =>
        LET other == budgetFlipped(state)
        IN  /\ \A i \in 1..Len(dishes) : ~Has(dishes[i], "price")
            /\ \A i \in 1..Len(dishes) :
                 scoreDish(dishes[i], estimateMacros(dishes[i]), ctxOf(state), priceOf(dishes[i]))
                 = scoreDish(dishes[i], estimateMacros(dishes[i]), ctxOf(other), priceOf(dishes[i]))
            /\ pickDishes(picks) = pickDishes(ranked(dishesOf(other, props), other))

\* budget mode is on and three picks are ranked, from a menu or from a template
C23_Witness ==
    /\ pc = "ranked"
    /\ state.budgetMode
    /\ Len(picks) = 3
    /\ Includes(picks[1].badges, "Budget")

\* the four badges that follow the user's flags
FlagBadges == {"Low-Carb", "Low-Sodium", "Budget", "Training-Day"}

\* the badges of a pick, as a set
badgeSet(p) == { p.badges[j] : j \in 1..Len(p.badges) }

\* the flag badges the user's flags call for
flagBadgesOf(st) ==
    { b \in FlagBadges :
        \/ b = "Low-Carb" /\ Flag(st.prefs, "lowCarb")
        \/ b = "Low-Sodium" /\ Flag(st.prefs, "lowSodium")
        \/ b = "Budget" /\ Flag(st, "budgetMode")
        \/ b = "Training-Day" /\ Flag(st, "trainingDay") }

\* C24: in any ranking every pick carries exactly the flag badges that the user's
\* flags call for, whatever the dish (a pick flagged high-sodium has Low-Sodium when
\* the preference is on); the only other badge is High-Protein, carried exactly by
\* the picks with protein per 100 kcal >= 7, so it alone can differ between picks.
C24_FlagBadgesUniform ==
    pc = "ranked" =>
        \A i \in 1..Len(picks) :
            /\ badgeSet(picks[i]) \cap FlagBadges = flagBadgesOf(state)
            /\ badgeSet(picks[i]) \subseteq FlagBadges \cup {"High-Protein"}
            /\ ("High-Protein" \in badgeSet(picks[i])) <=> (picks[i].proteinPer100kcal >= 70)

\* low sodium is on, a pick flagged high-sodium carries Low-Sodium, and two picks
\* differ in High-Protein
C24_Witness ==
    /\ pc = "ranked"
    /\ Flag(state.prefs, "lowSodium")
    /\ \E i \in 1..Len(picks) :
         picks[i].sodiumFlag = TRUE /\ "Low-Sodium" \in badgeSet(picks[i])
    /\ \E i, j \in 1..Len(picks) :
         "High-Protein" \in badgeSet(picks[i]) /\ "High-Protein" \notin badgeSet(picks[j])

=============================================================================
